---- MODULE Spec2Model ----
(***************************************************************************)
(* Model of the lexical analyzer of codeanalyzer-backend                   *)
(* (src/lexical_analyzer.py) and of its driver (src/main.py).              *)
(*                                                                         *)
(* A Python str is modelled as a sequence of one-character strings.        *)
(* Offsets are 0-based as in the code: source[i] is CharAt(source, i).     *)
(***************************************************************************)
EXTENDS Integers, Sequences, FiniteSets, TLC

VARIABLES
    source,     \* LexicalAnalyzer.source
    offset,     \* LexicalAnalyzer.offset
    lexemes,    \* LexicalAnalyzer._lexemes
    lexeme,     \* parse(): local `lexeme`; <<>> is None, <<l>> is a Lexeme
    span,       \* the span matched by the last matcher call (m.span() /
                \* [offset, offset+length) before the advance); <<>> if none
    spans,      \* history: the span of every appended lexeme, in order
    exc,        \* the UnknownLexemeException raised by parse(), if any
    pc,         \* position in start_lexical_analyzer / parse
    unparsed,   \* main.py: the printed source[e.pos:]
    result,     \* main.py: what is written to f_result
    prev        \* outcome of the previous run on a whitespace variant

vars == <<source, offset, lexemes, lexeme, span, spans, exc, pc, unparsed,
          result, prev>>

----------------------------------------------------------------------------
(* Bounds of the explored inputs *)

MaxLen == 5
MaxGap == 1
MaxTail == 3
MaxName == 2
MaxDigits == 2

----------------------------------------------------------------------------
(* Characters *)

Lower == {"a","b","c","d","e","f","g","h","i","j","k","l","m",
          "n","o","p","q","r","s","t","u","v","w","x","y","z"}
Upper == {"A","B","C","D","E","F","G","H","I","J","K","L","M",
          "N","O","P","Q","R","S","T","U","V","W","X","Y","Z"}
Letters == Lower \cup Upper
Digits == {"0","1","2","3","4","5","6","7","8","9"}

\* str.isalnum() on one character
isalnum(c) == c \in Letters \cup Digits

\* LexicalAnalyzer.space_chars
space_chars == {" ", "\n", "\r", "\t"}

\* len(s)
len(s) == Len(s)

\* s[i], 0-based
CharAt(s, i) == s[i + 1]

\* s[a:b] with Python's clamping of b
Slice(s, a, b) == SubSeq(s, a + 1, IF b > Len(s) THEN Len(s) ELSE b)

SetMin(S) == CHOOSE x \in S : \A y \in S : x <= y

\* str.find(sub, start, end): lowest index i with start <= i and
\* i + len(sub) <= min(end, len(s)) and s[i:i+len(sub)] == sub, else -1
find(s, sub, start, end) ==
    LET e == IF end > Len(s) THEN Len(s) ELSE end
        hits == {i \in start..(e - Len(sub)) : Slice(s, i, i + Len(sub)) = sub}
    IN IF hits = {} THEN -1 ELSE SetMin(hits)

----------------------------------------------------------------------------
(* Token catalog *)

IdentifierPattern == "[a-zA-Z_][a-zA-Z0-9_]*"
NumberPattern == "(0|[1-9][0-9]*)"

\* class LexemeType(Enum): member name :> value
LexemeType ==
    "Dim" :> <<"D","i","m">>
 @@ "Print" :> <<"P","r","i","n","t">>
 @@ "Const" :> <<"C","o","n","s","t">>
 @@ "Option" :> <<"O","p","t","i","o","n">>
 @@ "Explicit" :> <<"E","x","p","l","i","c","i","t">>
 @@ "Set" :> <<"S","e","t">>
 @@ "If" :> <<"I","f">>
 @@ "Else" :> <<"E","l","s","e">>
 @@ "Sub" :> <<"S","u","b">>
 @@ "End" :> <<"E","n","d">>
 @@ "For" :> <<"F","o","r">>
 @@ "Each" :> <<"E","a","c","h">>
 @@ "Next" :> <<"N","e","x","t">>
 @@ "Plus" :> <<"+">>
 @@ "Minus" :> <<"-">>
 @@ "Multiply" :> <<"*">>
 @@ "Exponent" :> <<"^">>
 @@ "Divide" :> <<"/">>
 @@ "IntegerDivide" :> <<"\\">>
 @@ "Mod" :> <<"M","o","d">>
 @@ "Not" :> <<"N","o","t">>
 @@ "And" :> <<"A","n","d">>
 @@ "Or" :> <<"O","r">>
 @@ "Xor" :> <<"X","o","r">>
 @@ "AndAlso" :> <<"A","n","d","A","l","s","o">>
 @@ "OrElse" :> <<"O","r","E","l","s","e">>
 @@ "Assign" :> <<"=">>
 @@ "Semicolon" :> <<";">>
 @@ "DoubleQuote" :> <<"\"">>
 @@ "Dot" :> <<".">>
 @@ "Comma" :> <<",">>
 @@ "OpeningBracket" :> <<"(">>
 @@ "ClosingBracket" :> <<")">>
 @@ "Identifier" :> IdentifierPattern
 @@ "Number" :> NumberPattern

\* class Lexeme
Lexeme(lexeme_type, lexeme_value, off, length) ==
    [lexeme_type |-> lexeme_type, lexeme_value |-> lexeme_value,
     offset |-> off, length |-> length]

\* class StaticLexemeDefinition
StaticLexemeDefinition(lexeme_type, is_keyword) ==
    [lexeme_type |-> lexeme_type, representation |-> LexemeType[lexeme_type],
     is_keyword |-> is_keyword]

\* class DynamicLexemeDefinition: the representation is the compiled pattern
DynamicLexemeDefinition(lexeme_type) ==
    [lexeme_type |-> lexeme_type, representation |-> LexemeType[lexeme_type]]

static_lexeme_definitions ==
    << StaticLexemeDefinition("Dim", TRUE),
       StaticLexemeDefinition("Print", TRUE),
       StaticLexemeDefinition("Const", TRUE),
       StaticLexemeDefinition("Option", TRUE),
       StaticLexemeDefinition("Explicit", TRUE),
       StaticLexemeDefinition("Set", TRUE),
       StaticLexemeDefinition("If", TRUE),
       StaticLexemeDefinition("Else", TRUE),
       StaticLexemeDefinition("For", TRUE),
       StaticLexemeDefinition("Each", TRUE),
       StaticLexemeDefinition("End", TRUE),
       StaticLexemeDefinition("Plus", FALSE),
       StaticLexemeDefinition("Minus", FALSE),
       StaticLexemeDefinition("Multiply", FALSE),
       StaticLexemeDefinition("Exponent", FALSE),
       StaticLexemeDefinition("Divide", FALSE),
       StaticLexemeDefinition("IntegerDivide", FALSE),
       StaticLexemeDefinition("Mod", FALSE),
       StaticLexemeDefinition("Not", FALSE),
       StaticLexemeDefinition("And", FALSE),
       StaticLexemeDefinition("Or", FALSE),
       StaticLexemeDefinition("Xor", FALSE),
       StaticLexemeDefinition("AndAlso", FALSE),
       StaticLexemeDefinition("OrElse", FALSE),
       StaticLexemeDefinition("Assign", FALSE),
       StaticLexemeDefinition("Semicolon", FALSE),
       StaticLexemeDefinition("DoubleQuote", FALSE),
       StaticLexemeDefinition("Dot", FALSE),
       StaticLexemeDefinition("Comma", FALSE),
       StaticLexemeDefinition("OpeningBracket", FALSE),
       StaticLexemeDefinition("ClosingBracket", FALSE) >>

\* variant of dynamic_lexeme_definitions: the number pattern tried first
dynamic_lexeme_definitions_NumberFirst ==
    << DynamicLexemeDefinition("Number"),
       DynamicLexemeDefinition("Identifier") >>

dynamic_lexeme_definitions ==
    << DynamicLexemeDefinition("Identifier"),
       DynamicLexemeDefinition("Number") >>

----------------------------------------------------------------------------
(* Compiled patterns: re.compile(lexeme_type.value).search(source, pos) *)

IdentStartChars == Letters \cup {"_"}
IdentChars == Letters \cup Digits \cup {"_"}
NonZeroDigits == Digits \ {"0"}

\* end of the longest run of characters of class C starting at i (greedy *)
RECURSIVE RunEnd(_, _, _)
RunEnd(s, i, C) ==
    IF i < Len(s) /\ CharAt(s, i) \in C THEN RunEnd(s, i + 1, C) ELSE i

\* [a-zA-Z_][a-zA-Z0-9_]* anchored at i: the end of the match, or -1
IdentifierMatchEnd(s, i) ==
    IF i < Len(s) /\ CharAt(s, i) \in IdentStartChars
    THEN RunEnd(s, i + 1, IdentChars)
    ELSE -1

\* variant of NumberMatchEnd: the pattern written [0-9]+
NumberMatchEndAnyDigits(s, i) ==
    IF i < Len(s) /\ CharAt(s, i) \in Digits
    THEN RunEnd(s, i + 1, Digits)
    ELSE -1

\* (0|[1-9][0-9]*) anchored at i: the end of the match, or -1
NumberMatchEnd(s, i) ==
    IF i < Len(s) /\ CharAt(s, i) = "0" THEN i + 1
    ELSE IF i < Len(s) /\ CharAt(s, i) \in NonZeroDigits
         THEN RunEnd(s, i + 1, Digits)
         ELSE -1

\* pattern.match at index i: the end of the match, or -1
MatchEnd(pattern, s, i) ==
    IF pattern = IdentifierPattern THEN IdentifierMatchEnd(s, i)
    ELSE NumberMatchEnd(s, i)

\* variant of search: pattern.match(s, pos), anchored at pos
searchAnchored(pattern, s, pos) ==
    IF MatchEnd(pattern, s, pos) = -1 THEN <<>>
    ELSE << [start |-> pos, end |-> MatchEnd(pattern, s, pos)] >>

\* pattern.search(s, pos): the span of the leftmost match starting at or
\* after pos as <<[start, end]>>, or <<>> for None
search(pattern, s, pos) ==
    LET starts == {i \in pos..(Len(s) - 1) : MatchEnd(pattern, s, i) # -1}
    IN IF starts = {} THEN <<>>
       ELSE LET i == SetMin(starts)
            IN << [start |-> i, end |-> MatchEnd(pattern, s, i)] >>

----------------------------------------------------------------------------
(* LexicalAnalyzer: cursor *)

\* in_bounds()
in_bounds(s, off) == off < len(s)

\* skip_spaces(): the offset it leaves
RECURSIVE skip_spaces(_, _)
skip_spaces(s, off) ==
    IF in_bounds(s, off) /\ CharAt(s, off) \in space_chars
    THEN skip_spaces(s, off + 1)
    ELSE off

----------------------------------------------------------------------------
(* LexicalAnalyzer: matchers.  A matcher call yields the returned lexeme    *)
(* (<<>> for None), the offset it leaves and the span it matched.          *)

\* variant of NoMatch: a failed matcher call has consumed one character
NoMatchAdvancing(off) == [lexeme |-> <<>>, offset |-> off + 1, span |-> <<>>]

NoMatch(off) == [lexeme |-> <<>>, offset |-> off, span |-> <<>>]

\* variant of StaticLiteralMisses: find() without the end bound, so the
\* literal is looked for anywhere after the cursor
StaticLiteralMissesUnanchored(s, off, rep) ==
    \/ off + len(rep) > len(s)
    \/ find(s, rep, off, len(s)) = -1

\* lines 170-171: the literal does not fit or is not at the cursor
StaticLiteralMisses(s, off, rep) ==
    \/ off + len(rep) > len(s)
    \/ find(s, rep, off, off + len(rep)) = -1

\* variant of KeywordBoundaryRejects: next_char.isalpha() only
KeywordBoundaryRejectsAlphaOnly(s, off, lexeme_def) ==
    /\ off + len(lexeme_def.representation) < len(s)
    /\ lexeme_def.is_keyword
    /\ CharAt(s, off + len(lexeme_def.representation)) \in Letters

\* lines 174-177: a keyword followed by '_' or an alphanumeric is rejected
KeywordBoundaryRejects(s, off, lexeme_def) ==
    /\ off + len(lexeme_def.representation) < len(s)
    /\ lexeme_def.is_keyword
    /\ LET next_char == CharAt(s, off + len(lexeme_def.representation))
       IN next_char = "_" \/ isalnum(next_char)

\* variant of StaticEmit: the cursor is not advanced
StaticEmitNoAdvance(off, lexeme_def) ==
    LET length == len(lexeme_def.representation)
    IN [lexeme |-> << Lexeme(lexeme_def.lexeme_type, lexeme_def.representation,
                             off, length) >>,
        offset |-> off,
        span |-> << [start |-> off, end |-> off + length] >>]

\* lines 179-181: advance, then build the Lexeme from the advanced offset
StaticEmit(off, lexeme_def) ==
    LET length == len(lexeme_def.representation)
    IN [lexeme |-> << Lexeme(lexeme_def.lexeme_type, lexeme_def.representation,
                             off + length, length) >>,
        offset |-> off + length,
        span |-> << [start |-> off, end |-> off + length] >>]

\* the for loop of process_static_lexeme from definition k on
RECURSIVE StaticFrom(_, _, _)
StaticFrom(s, off, k) ==
    IF k > Len(static_lexeme_definitions) THEN NoMatch(off)
    ELSE LET lexeme_def == static_lexeme_definitions[k]
         IN IF StaticLiteralMisses(s, off, lexeme_def.representation)
            THEN StaticFrom(s, off, k + 1)
            ELSE IF KeywordBoundaryRejects(s, off, lexeme_def)
                 THEN StaticFrom(s, off, k + 1)
                 ELSE StaticEmit(off, lexeme_def)

process_static_lexeme(s, off) == StaticFrom(s, off, 1)

\* variant of DynamicEmit: the cursor is advanced by span[1], not by the
\* match length
DynamicEmitAdvanceByEnd(s, off, lexeme_def, m) ==
    LET match_length == m.end - m.start
    IN [lexeme |-> << Lexeme(lexeme_def.lexeme_type, Slice(s, m.start, m.end),
                             off + m.end, match_length) >>,
        offset |-> off + m.end,
        span |-> << m >>]

\* variant of DynamicEmit: self.offset = match_length instead of +=
DynamicEmitAssign(s, off, lexeme_def, m) ==
    LET match_length == m.end - m.start
    IN [lexeme |-> << Lexeme(lexeme_def.lexeme_type, Slice(s, m.start, m.end),
                             match_length, match_length) >>,
        offset |-> match_length,
        span |-> << m >>]

\* lines 190-194: advance by the match length, then build the Lexeme
DynamicEmit(s, off, lexeme_def, m) ==
    LET match_length == m.end - m.start
    IN [lexeme |-> << Lexeme(lexeme_def.lexeme_type, Slice(s, m.start, m.end),
                             off + match_length, match_length) >>,
        offset |-> off + match_length,
        span |-> << m >>]

\* the for loop of process_dynamic_lexeme from definition k on
RECURSIVE DynamicFrom(_, _, _)
DynamicFrom(s, off, k) ==
    IF k > Len(dynamic_lexeme_definitions) THEN NoMatch(off)
    ELSE LET lexeme_def == dynamic_lexeme_definitions[k]
             m == search(lexeme_def.representation, s, off)
         IN IF m = <<>>
            THEN DynamicFrom(s, off, k + 1)
            ELSE DynamicEmit(s, off, lexeme_def, m[1])

process_dynamic_lexeme(s, off) == DynamicFrom(s, off, 1)

----------------------------------------------------------------------------
(* Inputs: the sources the analyzer is constructed on *)

RECURSIVE SeqsOfLen(_, _)
SeqsOfLen(S, n) ==
    IF n = 0 THEN {<<>>}
    ELSE {Append(s, c) : s \in SeqsOfLen(S, n - 1), c \in S}

SeqsUpTo(S, n) == UNION {SeqsOfLen(S, k) : k \in 0..n}

\* the examples of the specification's testable properties
SpecExamples ==
    { <<"D","i","m"," ","x"," ","@"," ","1">>,
      <<"I","f"," ","x"," ",">"," ","0"," ","T","h","e","n">>,
      <<"F","o","r","e","c","a","s","t"," ","=" ," ","1">>,
      <<"D","i","m"," ","c","o","u","n","t"," ","="," ","0">>,
      <<"D","i","m"," "," ","x">>,
      <<"D","i","m"," ","x">>,
      <<"0","0","7">>,
      <<"0">>,
      <<"O","r","d","e","r">> }

\* every string over a small alphabet
Sigma == {"a", "0", " ", "@"}
CharSources == SeqsUpTo(Sigma, MaxLen)

\* one catalog literal, or two separated by a run of whitespace
StaticLiterals ==
    {static_lexeme_definitions[k].representation :
        k \in 1..Len(static_lexeme_definitions)}

Gaps == {g \in SeqsUpTo(space_chars, MaxGap) : Len(g) >= 1}

LiteralSources ==
    StaticLiterals \cup
    {a \o g \o b : a \in StaticLiterals, g \in Gaps, b \in StaticLiterals}

\* a keyword of the enumeration followed by a short tail
KeywordKinds ==
    {"Dim", "Print", "Const", "Option", "Explicit", "Set", "If", "Else",
     "Sub", "End", "For", "Each", "Next"}
TailSigma == {"a", "_", "0", " "}
KeywordSources ==
    {LexemeType[k] \o t : k \in KeywordKinds, t \in SeqsUpTo(TailSigma, MaxTail)}

\* K name = n
NameSigma == {"c", "O", "r", "0"}
Names == {s \in SeqsUpTo(NameSigma, MaxName) : Len(s) >= 1 /\ s[1] \notin Digits}
DigitSigma == {"0", "7"}
Numerals == {s \in SeqsUpTo(DigitSigma, MaxDigits) : Len(s) >= 1}
AssignSources ==
    {LexemeType[k] \o <<" ">> \o name \o <<" ", "=", " ">> \o n :
        k \in KeywordKinds, name \in Names, n \in Numerals}

Sources ==
    SpecExamples \cup CharSources \cup LiteralSources \cup KeywordSources
        \cup AssignSources

----------------------------------------------------------------------------
(* start_lexical_analyzer and LexicalAnalyzer.parse as a state machine *)

\* LexicalAnalyzer.__init__(source), entered at the head of parse()
Construct(s) ==
    /\ source = s
    /\ offset = 0
    /\ lexemes = <<>>
    /\ lexeme = <<>>
    /\ span = <<>>
    /\ spans = <<>>
    /\ exc = <<>>
    /\ pc = "while"
    /\ unparsed = <<>>
    /\ result = <<>>

Init ==
    /\ \E s \in Sources : Construct(s)
    /\ prev = <<>>

\* lines 151-154: the loop test, skip_spaces() and the break
LoopHead ==
    /\ pc = "while"
    /\ LET o == IF in_bounds(source, offset)
                THEN skip_spaces(source, offset) ELSE offset
       IN /\ offset' = o
          /\ pc' = IF in_bounds(source, o) THEN "static" ELSE "done"
    /\ UNCHANGED <<source, lexemes, lexeme, span, spans, exc, unparsed,
                   result, prev>>

\* line 156: lexeme = self.process_static_lexeme()
ProcessStatic ==
    /\ pc = "static"
    /\ LET r == process_static_lexeme(source, offset)
       IN /\ lexeme' = r.lexeme
          /\ offset' = r.offset
          /\ span' = r.span
          /\ pc' = IF r.lexeme = <<>> THEN "dynamic" ELSE "check"
    /\ UNCHANGED <<source, lexemes, spans, exc, unparsed, result, prev>>

\* lines 157-158: lexeme = self.process_dynamic_lexeme()
ProcessDynamic ==
    /\ pc = "dynamic"
    /\ LET r == process_dynamic_lexeme(source, offset)
       IN /\ lexeme' = r.lexeme
          /\ offset' = r.offset
          /\ span' = r.span
          /\ pc' = "check"
    /\ UNCHANGED <<source, lexemes, spans, exc, unparsed, result, prev>>

\* variant of Raise: the lexemes collected so far are dropped
RaiseDiscarding ==
    /\ pc = "check"
    /\ lexeme = <<>>
    /\ exc' = << [pos |-> offset] >>
    /\ lexemes' = <<>>
    /\ pc' = "failed"
    /\ UNCHANGED <<source, offset, lexeme, span, spans, unparsed, result, prev>>

\* lines 160-161: raise UnknownLexemeException(self.offset)
Raise ==
    /\ pc = "check"
    /\ lexeme = <<>>
    /\ exc' = << [pos |-> offset] >>
    /\ pc' = "failed"
    /\ UNCHANGED <<source, offset, lexemes, lexeme, span, spans, unparsed,
                   result, prev>>

\* line 163: self.lexemes.append(lexeme)
AppendLexeme ==
    /\ pc = "check"
    /\ lexeme # <<>>
    /\ lexemes' = Append(lexemes, lexeme[1])
    /\ spans' = Append(spans, span[1])
    /\ pc' = "while"
    /\ UNCHANGED <<source, offset, lexeme, span, exc, unparsed, result, prev>>

\* str(lex) for lex in analyzer.lexemes
LexemeStrs(ls) == [i \in 1..Len(ls) |-> ls[i].lexeme_value]

\* main.py lines 11-14: report the exception, write the lexeme texts
WriteResult ==
    /\ pc \in {"done", "failed"}
    /\ unparsed' = IF exc = <<>> THEN <<>>
                   ELSE Slice(source, exc[1].pos, len(source))
    /\ result' = LexemeStrs(lexemes)
    /\ pc' = "exit"
    /\ UNCHANGED <<source, offset, lexemes, lexeme, span, spans, exc, prev>>

Next ==
    \/ LoopHead
    \/ ProcessStatic
    \/ ProcessDynamic
    \/ Raise
    \/ AppendLexeme
    \/ WriteResult

Spec == Init /\ [][Next]_vars

----------------------------------------------------------------------------
(* Re-running the analyzer on a whitespace variant of the same source *)

\* the (kind, text) pairs of a lexeme list
KindText(ls) ==
    [i \in 1..Len(ls) |-> <<ls[i].lexeme_type, ls[i].lexeme_value>>]

\* the ends b of the maximal whitespace runs of s (s[b-1] is whitespace and
\* s[b] is not)
RunEnds(s) ==
    {b \in 1..Len(s) :
        /\ CharAt(s, b - 1) \in space_chars
        /\ (b = Len(s) \/ CharAt(s, b) \notin space_chars)}

\* s with one whitespace run made one character longer, or one shorter while
\* it stays non-empty
WhitespaceVariants(s) ==
    {Slice(s, 0, b) \o <<CharAt(s, b - 1)>> \o Slice(s, b, Len(s)) :
        b \in RunEnds(s)}
    \cup
    {Slice(s, 0, b - 1) \o Slice(s, b, Len(s)) :
        b \in {e \in RunEnds(s) : e >= 2 /\ CharAt(s, e - 2) \in space_chars}}

\* a second call of start_lexical_analyzer, on a variant of the source; the
\* outcome of the first is kept for comparison
Rerun ==
    /\ pc = "exit"
    /\ prev = <<>>
    /\ prev' = << [source |-> source, failed |-> (exc # <<>>),
                   tokens |-> KindText(lexemes)] >>
    /\ \E v \in WhitespaceVariants(source) : source' = v
    /\ offset' = 0
    /\ lexemes' = <<>>
    /\ lexeme' = <<>>
    /\ span' = <<>>
    /\ spans' = <<>>
    /\ exc' = <<>>
    /\ pc' = "while"
    /\ unparsed' = <<>>
    /\ result' = <<>>

NextRerun ==
    \/ Next
    \/ Rerun

SpecRerun == Init /\ [][NextRerun]_vars

----------------------------------------------------------------------------
(* Running a fresh analyzer on the same source a second time *)

\* variant of NewAnalyzer: _lexemes as a class attribute, one list shared by
\* every analyzer
NewAnalyzerSharedLexemes(s) ==
    /\ source' = s
    /\ offset' = 0
    /\ lexemes' = lexemes
    /\ spans' = spans
    /\ lexeme' = <<>>
    /\ span' = <<>>
    /\ exc' = <<>>
    /\ pc' = "while"
    /\ unparsed' = <<>>
    /\ result' = <<>>

\* LexicalAnalyzer(source) for a further call of start_lexical_analyzer: the
\* next state is the one __init__ builds
NewAnalyzer(s) ==
    /\ source' = s
    /\ offset' = 0
    /\ lexemes' = <<>>
    /\ spans' = <<>>
    /\ lexeme' = <<>>
    /\ span' = <<>>
    /\ exc' = <<>>
    /\ pc' = "while"
    /\ unparsed' = <<>>
    /\ result' = <<>>

\* a second call of start_lexical_analyzer on the same source; the outcome of
\* the first is kept for comparison
RunAgain ==
    /\ pc = "exit"
    /\ prev = <<>>
    /\ prev' = << [source |-> source, failed |-> (exc # <<>>),
                   tokens |-> KindText(lexemes), exc |-> exc,
                   lexemes |-> lexemes, result |-> result,
                   unparsed |-> unparsed] >>
    /\ NewAnalyzer(source)

NextTwice ==
    \/ Next
    \/ RunAgain

SpecTwice == Init /\ [][NextTwice]_vars

----------------------------------------------------------------------------
(* Vocabulary of the properties *)

Terminated == pc \in {"done", "failed", "exit"}
Done == pc \in {"done", "exit"} /\ exc = <<>>
Failed == exc # <<>>

\* the words of s: its maximal runs of non-whitespace characters, in order
RECURSIVE WordsFrom(_, _, _, _)
WordsFrom(s, i, cur, acc) ==
    IF i >= Len(s)
    THEN (IF cur = <<>> THEN acc ELSE Append(acc, cur))
    ELSE IF CharAt(s, i) \in space_chars
         THEN WordsFrom(s, i + 1, <<>>,
                        IF cur = <<>> THEN acc ELSE Append(acc, cur))
         ELSE WordsFrom(s, i + 1, Append(cur, CharAt(s, i)), acc)

Words(s) == WordsFrom(s, 0, <<>>, <<>>)

\* the kind of the static definition whose literal is w
KindOfLiteral(w) ==
    LET k == CHOOSE j \in 1..Len(static_lexeme_definitions) :
                 static_lexeme_definitions[j].representation = w
    IN static_lexeme_definitions[k].lexeme_type

\* the languages of the two patterns
IsIdentifier(w) ==
    /\ Len(w) >= 1
    /\ w[1] \in IdentStartChars
    /\ \A i \in 2..Len(w) : w[i] \in IdentChars

IsNumber(w) ==
    \/ w = <<"0">>
    \/ /\ Len(w) >= 1
       /\ w[1] \in NonZeroDigits
       /\ \A i \in 2..Len(w) : w[i] \in Digits

\* some substring of s[pos:] is an identifier / a number
IdentifierOccurs(s, pos) ==
    \E i \in pos..(Len(s) - 1) : \E j \in (i + 1)..Len(s) :
        IsIdentifier(Slice(s, i, j))

NumberOccurs(s, pos) ==
    \E i \in pos..(Len(s) - 1) : \E j \in (i + 1)..Len(s) :
        IsNumber(Slice(s, i, j))

\* the literal of d is the text of s at off
LiteralAt(s, off, d) ==
    Slice(s, off, off + Len(d.representation)) = d.representation

\* d matches at off: its literal is there and, for a keyword, the next
\* character (if any) is neither alphanumeric nor '_'
StaticMatchesAt(s, off, d) ==
    /\ LiteralAt(s, off, d)
    /\ d.is_keyword =>
          \/ off + Len(d.representation) = Len(s)
          \/ CharAt(s, off + Len(d.representation)) \notin IdentChars

StaticDefs ==
    {static_lexeme_definitions[k] : k \in 1..Len(static_lexeme_definitions)}

KeywordDefs == {d \in StaticDefs : d.is_keyword}

\* the maximal run of identifier characters of s starting at off
WordAt(s, off) == Slice(s, off, RunEnd(s, off, IdentChars))

IsProperPrefix(p, w) == Len(p) < Len(w) /\ SubSeq(w, 1, Len(p)) = p

----------------------------------------------------------------------------
(* Properties *)

\* every word of the source is a catalog literal
OnlyLiterals(s) == \A i \in 1..Len(Words(s)) : Words(s)[i] \in StaticLiterals

\* the lexemes a source of catalog literals is to yield
LiteralTokens(s) ==
    [i \in 1..Len(Words(s)) |-> <<KindOfLiteral(Words(s)[i]), Words(s)[i]>>]

\* C1: a source made only of catalog literals separated by whitespace is
\* tokenized without UnknownLexemeException, and the emitted lexemes are
\* exactly those literals, in order, each with the kind of its definition.
C1_LiteralsReproduced ==
    OnlyLiterals(source) =>
        /\ ~Failed
        /\ Done => KindText(lexemes) = LiteralTokens(source)

\* no static literal is the text at off, and the character at off starts
\* neither an identifier nor a number
UnknownCharAt(s, off) ==
    /\ in_bounds(s, off)
    /\ CharAt(s, off) \notin space_chars
    /\ \A d \in StaticDefs : ~LiteralAt(s, off, d)
    /\ CharAt(s, off) \notin IdentStartChars \cup Digits

\* C2: when the scan, after skipping whitespace, stands on a character at
\* which no static literal matches and which starts neither an identifier nor
\* a number, both matchers return nothing, the cursor stays, and parse()
\* raises UnknownLexemeException with pos the offset of that character,
\* whatever follows it.
C2_UnknownCharRaises ==
    [][ /\ (pc = "static" /\ UnknownCharAt(source, offset))
            => (pc' = "dynamic" /\ lexeme' = <<>> /\ offset' = offset)
        /\ (pc = "dynamic" /\ UnknownCharAt(source, offset))
            => (pc' = "check" /\ lexeme' = <<>> /\ offset' = offset)
        /\ (pc = "check" /\ UnknownCharAt(source, offset))
            => (pc' = "failed" /\ exc' = << [pos |-> offset] >>)
      ]_vars

\* C3: every lexeme of analyzer.lexemes satisfies
\* source[offset : offset+length] == lexeme_value.
C3_OffsetIsSpanStart ==
    \A i \in 1..Len(lexemes) :
        Slice(source, lexemes[i].offset, lexemes[i].offset + lexemes[i].length)
            = lexemes[i].lexeme_value

\* the word at off is a catalog keyword followed by a non-empty suffix of
\* letters, digits and underscores
KeywordPlusSuffixAt(s, off) ==
    \E d \in KeywordDefs : IsProperPrefix(d.representation, WordAt(s, off))

\* C4: when the cursor stands on a word K+s, K a catalog keyword and s a
\* non-empty suffix of letters, digits and underscores, the static matcher
\* emits nothing for it and the dynamic matcher emits one Identifier lexeme
\* whose text is the whole word, matched at the cursor; that lexeme is the
\* one appended.
C4_KeywordBoundary ==
    [][ /\ (pc = "static" /\ KeywordPlusSuffixAt(source, offset))
            => (pc' = "dynamic" /\ lexeme' = <<>> /\ offset' = offset)
        /\ (pc = "dynamic" /\ KeywordPlusSuffixAt(source, offset))
            => /\ Len(lexeme') = 1
               /\ lexeme'[1].lexeme_type = "Identifier"
               /\ lexeme'[1].lexeme_value = WordAt(source, offset)
               /\ span' = << [start |-> offset,
                              end |-> offset + Len(WordAt(source, offset))] >>
               /\ offset' = offset + Len(WordAt(source, offset))
               /\ pc' = "check"
        /\ (pc = "check" /\ lexeme # <<>>)
            => (lexemes' = Append(lexemes, lexeme[1]) /\ pc' = "while")
      ]_vars

C4_Witness ==
    /\ pc = "check"
    /\ lexeme # <<>>
    /\ lexeme[1].lexeme_type = "Identifier"
    /\ span = << [start |-> offset - lexeme[1].length, end |-> offset] >>
    /\ \E d \in KeywordDefs :
          IsProperPrefix(d.representation, lexeme[1].lexeme_value)

\* C5: the spans at which successive emitted lexemes were matched are
\* strictly increasing and do not overlap.
C5_SourceOrder ==
    \A i \in 1..(Len(spans) - 1) :
        /\ spans[i].start < spans[i + 1].start
        /\ spans[i].end <= spans[i + 1].start

\* C6: changing the length of one whitespace run (keeping it non-empty)
\* changes neither the outcome nor the emitted (kind, text) pairs.
C6_WhitespaceInsensitive ==
    (Terminated /\ prev # <<>>) =>
        /\ prev[1].failed = Failed
        /\ prev[1].tokens = KindText(lexemes)

\* C7: lexemes only ever grows by the append of a matched lexeme; the step
\* that raises UnknownLexemeException leaves it as it was, and after the
\* exception the caller reads the list unchanged and writes its texts.
C7_PartialResultsRetained ==
    [][ /\ (lexemes' # lexemes)
            => (pc = "check" /\ lexeme # <<>>
                /\ lexemes' = Append(lexemes, lexeme[1]))
        /\ (pc' = "failed") => (lexemes' = lexemes)
        /\ (pc = "failed")
            => (pc' = "exit" /\ lexemes' = lexemes
                /\ result' = [i \in 1..Len(lexemes) |-> lexemes[i].lexeme_value])
      ]_vars

C7_Witness ==
    /\ pc = "exit"
    /\ Failed
    /\ Len(lexemes) >= 2
    /\ result = [i \in 1..Len(lexemes) |-> lexemes[i].lexeme_value]

\* at off no static definition matches and neither pattern occurs anywhere
\* in s[off:]
NothingMatches(s, off) ==
    /\ \A d \in StaticDefs : ~StaticMatchesAt(s, off, d)
    /\ ~IdentifierOccurs(s, off)
    /\ ~NumberOccurs(s, off)

\* C8: parse() raises UnknownLexemeException(pos) exactly when the cursor,
\* after whitespace skipping, is in bounds at an offset where no static
\* definition matches and neither pattern occurs anywhere in source[pos:];
\* pos is that offset and source[pos] is not whitespace; otherwise the step
\* yields a lexeme.
C8_RaisesExactlyWhenNothingMatches ==
    [][ /\ (pc = "static" /\ NothingMatches(source, offset))
            => (pc' = "dynamic" /\ lexeme' = <<>> /\ offset' = offset)
        /\ (pc = "dynamic" /\ NothingMatches(source, offset))
            => (pc' = "check" /\ lexeme' = <<>> /\ offset' = offset)
        /\ (pc \in {"static", "dynamic"} /\ pc' = "check"
                /\ ~NothingMatches(source, offset))
            => lexeme' # <<>>
        /\ (pc = "check" /\ lexeme = <<>>)
            => (pc' = "failed" /\ exc' = << [pos |-> offset] >>)
        /\ (pc' = "failed" /\ pc # "failed")
            => /\ pc = "check" /\ lexeme = <<>>
               /\ in_bounds(source, offset)
               /\ CharAt(source, offset) \notin space_chars
               /\ NothingMatches(source, offset)
               /\ exc' = << [pos |-> offset] >>
        /\ (exc' # <<>>) => (pc' \in {"failed", "exit"})
      ]_vars

C8_Witness ==
    /\ pc = "failed"
    /\ exc = << [pos |-> offset] >>
    /\ offset >= 1
    /\ NothingMatches(source, offset)
    /\ \E i \in 0..(offset - 1) : CharAt(source, i) \in IdentStartChars \cup Digits

\* C9: every emitted Number lexeme has text "0" or a digit string not
\* starting with '0'; the source "0" yields the single lexeme Number "0";
\* a digit run with a leading zero is never emitted as one Number lexeme.
C9_NumberPolicy ==
    /\ \A i \in 1..Len(lexemes) :
          lexemes[i].lexeme_type = "Number" =>
              /\ IsNumber(lexemes[i].lexeme_value)
              /\ ~(lexemes[i].length >= 2 /\ lexemes[i].lexeme_value[1] = "0")
    /\ (source = <<"0">> /\ Done) =>
          KindText(lexemes) = << <<"Number", <<"0">> >> >>
    /\ (source = <<"0", "0", "7">> /\ Done) =>
          KindText(lexemes) = << <<"Number", <<"0">> >>, <<"Number", <<"0">> >>,
                                 <<"Number", <<"7">> >> >>

C9_Witness ==
    /\ source = <<"0", "0", "7">>
    /\ Done
    /\ Len(lexemes) = 3
    /\ \A i \in 1..3 : lexemes[i].lexeme_type = "Number"

\* the decompositions of s as `K name = n` with single spaces: K a catalog
\* keyword, name an identifier that does not begin with the text of a static
\* literal, n a number
AssignForms(s) ==
    UNION {
        { [kw |-> d, i |-> Len(d.representation) + 1, j |-> j] :
            j \in {e \in (Len(d.representation) + 2)..(Len(s) - 4) :
                    /\ CharAt(s, Len(d.representation)) = " "
                    /\ Slice(s, e, e + 3) = <<" ", "=", " ">>
                    /\ IsIdentifier(Slice(s, Len(d.representation) + 1, e))
                    /\ \A x \in StaticDefs :
                          ~LiteralAt(Slice(s, Len(d.representation) + 1, e), 0, x)
                    /\ IsNumber(Slice(s, e + 3, Len(s)))} } :
        d \in {k \in KeywordDefs : LiteralAt(s, 0, k)} }

\* C10: a source `K name = n` is tokenized without error into exactly four
\* lexemes: kind K, Identifier name, Assign, Number n.
C10_AssignStatement ==
    \A f \in AssignForms(source) :
        /\ ~Failed
        /\ Len(lexemes) <= 4
        /\ Done =>
              KindText(lexemes) =
                  << <<f.kw.lexeme_type, f.kw.representation>>,
                     <<"Identifier", Slice(source, f.i, f.j)>>,
                     <<"Assign", <<"=">> >>,
                     <<"Number", Slice(source, f.j + 3, Len(source))>> >>

C10_Witness ==
    /\ source = <<"D","i","m"," ","c","o","u","n","t"," ","="," ","0">>
    /\ AssignForms(source) # {}
    /\ Done
    /\ Len(lexemes) = 4

\* s is w followed by whitespace only
FollowedByWhitespaceOnly(s, w) ==
    /\ Len(s) >= Len(w)
    /\ SubSeq(s, 1, Len(w)) = w
    /\ \A i \in (Len(w) + 1)..Len(s) : s[i] \in space_chars

\* C11: each of the 13 keyword kinds of the enumeration is a static literal:
\* a source that is the keyword alone, or the keyword followed by whitespace,
\* yields exactly one lexeme, of that keyword's kind.
C11_EveryKeywordRecognized ==
    \A k \in KeywordKinds :
        (FollowedByWhitespaceOnly(source, LexemeType[k]) /\ Terminated) =>
            /\ ~Failed
            /\ KindText(lexemes) = << <<k, LexemeType[k]>> >>

\* C12: no step of a run makes the cursor offset smaller.
C12_OffsetMonotone ==
    [][offset' >= offset]_vars

C12_Witness ==
    /\ pc = "check"
    /\ lexeme # <<>>
    /\ Len(lexemes) >= 1
    /\ span[1].start > lexemes[Len(lexemes)].offset
    /\ offset > span[1].start

OnlyWhitespace(s) == \A i \in 1..Len(s) : s[i] \in space_chars

\* a variant of the run: the characters left, then the position in the loop
PcRank ==
    CASE pc = "while" -> 3
      [] pc = "static" -> 2
      [] pc = "dynamic" -> 1
      [] pc = "check" -> (IF lexeme = <<>> THEN 0 ELSE 5)
      [] pc \in {"done", "failed"} -> -1
      [] pc = "exit" -> -2

Variant == 8 * (Len(source) - offset) + PcRank

\* the guards of the actions of Next: some step can be taken
StepEnabled ==
    \/ pc = "while"
    \/ pc = "static"
    \/ pc = "dynamic"
    \/ (pc = "check" /\ lexeme = <<>>)
    \/ (pc = "check" /\ lexeme # <<>>)
    \/ pc \in {"done", "failed"}

\* C14: every run terminates: each step decreases a variant that is bounded
\* below, and a run stops only once the driver has written its result; parse()
\* ends in Done with the cursor at len(source) or in Failed with the
\* exception raised; a matcher call that yields a lexeme advances the cursor
\* by at least one character and no step moves it back; an empty or
\* all-whitespace source ends in Done with no lexemes.
C14_Terminates ==
    [][ /\ Variant' < Variant
        /\ Variant' >= -2
        /\ (pc' # "exit") => StepEnabled'
        /\ offset' >= offset
        /\ (pc \in {"static", "dynamic"} /\ lexeme' # <<>>) => offset' >= offset + 1
        /\ (lexemes' # lexemes) => (pc = "check" /\ lexeme # <<>>)
        /\ (pc' = "done") => (offset' = Len(source) /\ exc' = <<>>)
        /\ (pc' = "failed") => (exc' = << [pos |-> offset] >> /\ offset' = offset)
        /\ (pc' = "exit") => (pc \in {"done", "failed"})
        /\ (pc' \in {"done", "failed"} /\ OnlyWhitespace(source))
            => (pc' = "done" /\ lexemes' = <<>>)
      ]_vars

C14_Witness ==
    /\ pc = "done"
    /\ Done
    /\ offset = Len(source)
    /\ Len(lexemes) >= 3
    /\ \E i \in 1..Len(source) : source[i] \in space_chars

\* the catalog positions of the static definitions that match at off
StaticMatchesIndices(s, off) ==
    {k \in 1..Len(static_lexeme_definitions) :
        StaticMatchesAt(s, off, static_lexeme_definitions[k])}

\* C15: when some static definition matches at the cursor, the step emits
\* the lexeme of the first such definition in catalog order, matched at the
\* cursor, advances the cursor by that literal's length, and goes on without
\* calling the dynamic matcher.
C15_StaticFirstFit ==
    [][ (pc = "static" /\ StaticMatchesIndices(source, offset) # {}) =>
            LET d == static_lexeme_definitions[
                         SetMin(StaticMatchesIndices(source, offset))]
            IN /\ Len(lexeme') = 1
               /\ lexeme'[1].lexeme_type = d.lexeme_type
               /\ lexeme'[1].lexeme_value = d.representation
               /\ lexeme'[1].length = Len(d.representation)
               /\ span' = << [start |-> offset,
                              end |-> offset + Len(d.representation)] >>
               /\ offset' = offset + Len(d.representation)
               /\ pc' = "check"
      ]_vars

C15_Witness ==
    /\ pc = "check"
    /\ lexeme # <<>>
    /\ lexeme[1].lexeme_type = "And"
    /\ span = << [start |-> offset - 3, end |-> offset] >>
    /\ Cardinality(StaticMatchesIndices(source, offset - 3)) = 2

\* C16: a matcher call that returns None leaves the cursor and the lexeme
\* list as they were, so the exception that follows carries the offset that
\* whitespace skipping reached.
C16_NoneChangesNothing ==
    [][ /\ (pc \in {"static", "dynamic"} /\ lexeme' = <<>>)
            => (offset' = offset /\ lexemes' = lexemes /\ spans' = spans)
        /\ (pc = "check" /\ lexeme = <<>>)
            => /\ exc' = << [pos |-> offset] >>
               /\ offset = skip_spaces(source, offset)
               /\ offset = 0 \/ Len(lexemes) >= 1
                    \/ \A i \in 0..(offset - 1) : CharAt(source, i) \in space_chars
      ]_vars

C16_Witness ==
    /\ pc = "check"
    /\ lexeme = <<>>
    /\ offset >= 2
    /\ CharAt(source, offset - 1) \in space_chars
    /\ Len(lexemes) >= 1

\* C17: 0 <= offset <= len(source) in every state; a dynamic match found
\* after the cursor does not move the cursor past the end of the source.
C17_OffsetInRange ==
    /\ 0 <= offset
    /\ offset <= Len(source)
    /\ \A i \in 1..Len(lexemes) : lexemes[i].offset <= Len(source)

C17_Witness ==
    /\ pc = "check"
    /\ lexeme # <<>>
    /\ lexeme[1].lexeme_type \in {"Identifier", "Number"}
    /\ span[1].start > offset - lexeme[1].length
    /\ span[1].end = Len(source)
    /\ offset < Len(source)

\* the texts of ls, concatenated
RECURSIVE ConcatTexts(_)
ConcatTexts(ls) ==
    IF ls = <<>> THEN <<>>
    ELSE ls[1].lexeme_value \o ConcatTexts(Tail(ls))

\* s without its whitespace characters
WithoutWhitespace(s) == SelectSeq(s, LAMBDA c : c \notin space_chars)

\* C18: when a run ends in Done, the texts of the emitted lexemes,
\* concatenated in order, are the source with its whitespace removed.
C18_CoversSource ==
    Done => ConcatTexts(lexemes) = WithoutWhitespace(source)

\* the static kinds whose literal consists of letters
WordKinds ==
    {static_lexeme_definitions[k].lexeme_type :
        k \in {j \in 1..Len(static_lexeme_definitions) :
                 \A i \in 1..Len(static_lexeme_definitions[j].representation) :
                     static_lexeme_definitions[j].representation[i] \in Letters}}

\* C19: whenever a static lexeme whose literal consists of letters is
\* emitted, the source character right after its matched span, if any, is
\* not a letter, digit or underscore.
C19_WordLiteralBoundary ==
    \A i \in 1..Len(lexemes) :
        lexemes[i].lexeme_type \in WordKinds =>
            \/ spans[i].end = Len(source)
            \/ CharAt(source, spans[i].end) \notin IdentChars

====
